---- MODULE Spec2Model ----
(***************************************************************************)
(* Model of the restaurants REST service: models.js (the Restaurant        *)
(* schema, its virtuals and apiRepr) and server.js (the five route         *)
(* handlers, the fallback handler and runServer).                          *)
(*                                                                         *)
(* JavaScript values are tagged records.  A string is a sequence of        *)
(* tokens (words and the blank " "), so that template literals and trim()  *)
(* are computed and not assumed.  A key missing from a JSON object reads   *)
(* as Undefined, exactly as obj[key] does in JavaScript; JSON cannot carry *)
(* an undefined value, so `key in obj` is obj[key] # Undefined.            *)
(***************************************************************************)
EXTENDS Integers, Sequences, FiniteSets

VARIABLES
    lifecycle,  \* runServer: position, promise state, listening socket
    db,         \* mongoose connection readyState
    store,      \* the restaurants collection, in natural (insertion) order
    pc,         \* the request handler: "idle", "awaitStore" or "done"
    req,        \* the request being handled (kept after completion)
    dbop,       \* the store operation the handler issued for req
    result,     \* what the store call delivered to the promise chain
    res         \* the response object of req

vars == <<lifecycle, db, store, pc, req, dbop, result, res>>

(***************************************************************************)
(* Bounds                                                                  *)
(***************************************************************************)
MaxRecords == 2      \* ids the store hands out in Spec
MaxListRecords == 11 \* documents in the collection in SpecList
MaxGrades == 3       \* length of a grades array in SpecModel

(***************************************************************************)
(* JavaScript values                                                       *)
(***************************************************************************)
Undefined == [t |-> "undefined"]
Null == [t |-> "null"]
Str(s) == [t |-> "string", s |-> s]
DateOf(n) == [t |-> "date", ms |-> n]
Arr(a) == [t |-> "array", a |-> a]
Addr(b, s) == [t |-> "object", building |-> b, street |-> s]
IdStr(i) == [t |-> "id", n |-> i]

\* String(v) as a template literal `${v}` computes it
ToStr(v) ==
    CASE v.t = "undefined" -> <<"undefined">>
      [] v.t = "null" -> <<"null">>
      [] OTHER -> v.s

RECURSIVE TrimLeft(_)
TrimLeft(s) == IF s # <<>> /\ Head(s) = " " THEN TrimLeft(Tail(s)) ELSE s

RECURSIVE TrimRight(_)
TrimRight(s) ==
    IF s # <<>> /\ s[Len(s)] = " " THEN TrimRight(SubSeq(s, 1, Len(s) - 1)) ELSE s

\* String.prototype.trim
Trim(s) == TrimRight(TrimLeft(s))

(***************************************************************************)
(* models.js                                                               *)
(***************************************************************************)
\* a removed or never created document: findById yields null
NoDoc == [t |-> "null"]

\* schema paths with required: true
RequiredPaths == {"name", "borough", "cuisine"}

\* mongoose's required validator for a String path
checkRequired(v) == v.t = "string" /\ Len(v.s) > 0

\* document validation run by Model.create (not by findByIdAndUpdate)
validate(d) == \A p \in RequiredPaths : checkRequired(d[p])

\* the nested path address is always an object; unset members are undefined
AddressOf(doc) ==
    IF doc.address = Undefined THEN Addr(Undefined, Undefined) ELSE doc.address

\* virtual('addressString')
addressString(doc) ==
    Str(Trim(ToStr(AddressOf(doc).building) \o <<" ">> \o ToStr(AddressOf(doc).street)))

\* the comparator (a, b) => b.date - a.date; NaN counts as +0
compareDates(a, b) ==
    IF a.date = Undefined \/ b.date = Undefined THEN 0 ELSE b.date.ms - a.date.ms

\* a comparator is consistent on an array when it orders it totally
ConsistentOn(g) ==
    \A i, j, k \in 1..Len(g) :
        (compareDates(g[i], g[j]) <= 0 /\ compareDates(g[j], g[k]) <= 0)
            => compareDates(g[i], g[k]) <= 0

indexOrders(n) == {p \in [1..n -> 1..n] : \A i, j \in 1..n : p[i] = p[j] => i = j}

\* Array.prototype.sort: sorted by the comparator, ties in any order (the
\* sort is not required to be stable); with an inconsistent comparator the
\* order is implementation-defined
sortOrders(g) ==
    {p \in indexOrders(Len(g)) :
        ConsistentOn(g) =>
            \A i, j \in 1..Len(g) : i < j => compareDates(g[p[i]], g[p[j]]) <= 0}

\* virtual('grade'): the values the getter can return
gradeValues(doc) ==
    IF Len(doc.grades) = 0 THEN {Undefined}
    ELSE {doc.grades[p[1]].grade : p \in sortOrders(doc.grades)}

\* methods.apiRepr: the values it can return
apiRepr(doc) ==
    {[id |-> doc.id, name |-> doc.name, cuisine |-> doc.cuisine,
      borough |-> doc.borough, grade |-> g, address |-> addressString(doc)] :
        g \in gradeValues(doc)}

\* the document Model.create builds from the object passed to it
newDoc(i, o) ==
    [id |-> i, name |-> o.name, borough |-> o.borough, cuisine |-> o.cuisine,
     address |-> o.address,
     grades |-> IF o.grades = Undefined THEN <<>> ELSE o.grades.a]


(***************************************************************************)
(* The collection (what the mongoose calls of server.js do to it)          *)
(***************************************************************************)
RECURSIVE selectDocs(_, _)
selectDocs(s, filter) ==
    IF s = <<>> THEN <<>>
    ELSE IF Head(s) # NoDoc
            /\ \A f \in DOMAIN filter :
                  filter[f] = Undefined \/ Head(s)[f] = filter[f]
         THEN <<Head(s)>> \o selectDocs(Tail(s), filter)
         ELSE selectDocs(Tail(s), filter)

\* find without .limit(n)
find_unlimited(s, filter, n) == selectDocs(s, filter)

\* Restaurant.find(filter).limit(n).exec()
find(s, filter, n) ==
    LET m == selectDocs(s, filter)
    IN  IF Len(m) > n THEN SubSeq(m, 1, n) ELSE m

\* Restaurant.findById(id).exec()
findById(s, id) == IF id \in 1..Len(s) THEN s[id] ELSE NoDoc

\* the document after {$set: set}; a member that is Undefined is not in set
applySet(doc, set) ==
    [k \in DOMAIN doc |->
        IF k \in DOMAIN set /\ set[k] # Undefined THEN set[k] ELSE doc[k]]

\* the collection after Restaurant.findByIdAndUpdate(id, {$set: set})
findByIdAndUpdate(s, id, set) ==
    IF findById(s, id) = NoDoc THEN s
    ELSE [s EXCEPT ![id] = applySet(s[id], set)]

\* a removal that ignores the id and takes the first document
findByIdAndRemove_first(s, id) ==
    IF s = <<>> THEN s ELSE [s EXCEPT ![1] = NoDoc]

\* the collection after Restaurant.findByIdAndRemove(id)
findByIdAndRemove(s, id) ==
    IF findById(s, id) = NoDoc THEN s ELSE [s EXCEPT ![id] = NoDoc]

\* the collection after Restaurant.create(o) of a valid document
create(s, o) == Append(s, newDoc(Len(s) + 1, o))

(***************************************************************************)
(* The response object (express)                                           *)
(***************************************************************************)
\* a response nothing was written to
freshRes == [out |-> <<>>, calls |-> <<>>, unhandled |-> FALSE]

\* res.status(st).json(b) / .send(b) / .end(): the first call writes the
\* response; a later call throws "Can't set headers after they are sent"
send(r, st, b) ==
    [r EXCEPT !.out = IF r.out = <<>> THEN <<[status |-> st, body |-> b]>> ELSE @,
              !.calls = Append(@, st)]

InternalServerError == [message |-> <<"Internal", "server", "error">>]

\* promise.then(ok => res.status(st).json(b)).catch(err => res.status(500)...)
\* fulfilled: the store call succeeded and the then callback got to its
\* response call; an exception thrown in catch is an unhandled rejection
thenCatch(r, fulfilled, st, b) ==
    LET r1 == IF fulfilled THEN send(r, st, b) ELSE r
        rejected == ~fulfilled \/ r.out # <<>>
        r2 == IF rejected THEN send(r1, 500, InternalServerError) ELSE r1
    IN  [r2 EXCEPT !.unhandled = rejected /\ r1.out # <<>>]


(***************************************************************************)
(* Requests the model sends                                                *)
(***************************************************************************)
Ids == 1..MaxRecords

BodyIdVals == {Undefined} \cup {IdStr(i) : i \in Ids}

\* bodies of POST requests: any of the required keys may be missing, name
\* may be null, grades and address are left out
PostBodies ==
    [id : {Undefined}, name : {Undefined, Null, Str(<<"A">>)},
     borough : {Undefined, Str(<<"B">>)}, cuisine : {Undefined, Str(<<"C">>)},
     address : {Undefined}, grades : {Undefined}]

\* bodies of PUT requests: id missing, equal to or different from the path
\* id; values for name, cuisine and address; grades, which is not updatable
PutBodies ==
    [id : BodyIdVals, name : {Undefined, Null}, borough : {Undefined},
     cuisine : {Undefined, Str(<<"C">>)},
     address : {Undefined, Addr(Str(<<"12">>), Str(<<"Main">>))},
     grades : {Undefined, Arr(<<[date |-> DateOf(1), grade |-> Str(<<"A">>)]>>)}]

QueryVals == {Undefined, Str(<<"C">>), Str(<<"D">>)}
\* query strings: cuisine, borough, and name, which is not queryable
Queries == [cuisine : QueryVals, borough : {Undefined, Str(<<"B">>), Str(<<"X">>)},
            name : {Undefined, Str(<<"Z">>)}]

noBody == [id |-> Undefined, name |-> Undefined, borough |-> Undefined,
           cuisine |-> Undefined, address |-> Undefined, grades |-> Undefined]
noQuery == [cuisine |-> Undefined, borough |-> Undefined, name |-> Undefined]

Request(op, id, q, b) == [op |-> op, id |-> id, query |-> q, body |-> b]

noOp == [op |-> "none"]
noResult == [ok |-> FALSE, doc |-> NoDoc]

(***************************************************************************)
(* server.js: runServer                                                    *)
(***************************************************************************)
\* runServer(): new Promise(...) and mongoose.connect(databaseUrl, callback)
RunServer ==
    /\ lifecycle.pc = "init"
    /\ lifecycle' = [lifecycle EXCEPT !.pc = "connecting"]
    /\ db' = "connecting"
    /\ UNCHANGED <<store, pc, req, dbop, result, res>>

\* the connect callback with err: return reject(err)
ConnectError ==
    /\ lifecycle.pc = "connecting"
    /\ db' = "disconnected"
    /\ lifecycle' = [lifecycle EXCEPT !.pc = "done", !.promise = "rejected",
                                      !.err = "connect"]
    /\ UNCHANGED <<store, pc, req, dbop, result, res>>

\* the connect callback without err: server = app.listen(port, ...)
ConnectOk ==
    /\ lifecycle.pc = "connecting"
    /\ db' = "connected"
    /\ lifecycle' = [lifecycle EXCEPT !.pc = "binding", !.listenCalled = TRUE]
    /\ UNCHANGED <<store, pc, req, dbop, result, res>>

\* the listen callback: resolve()
ListenOk ==
    /\ lifecycle.pc = "binding"
    /\ lifecycle' = [lifecycle EXCEPT !.pc = "done", !.promise = "resolved",
                                      !.listening = TRUE]
    /\ UNCHANGED <<db, store, pc, req, dbop, result, res>>

\* the 'error' handler without the call of mongoose.disconnect()
ListenError_noDisconnect ==
    /\ lifecycle.pc = "binding"
    /\ lifecycle' = [lifecycle EXCEPT !.pc = "done", !.promise = "rejected",
                                      !.err = "listen"]
    /\ UNCHANGED <<db, store, pc, req, dbop, result, res>>

\* the 'error' handler: mongoose.disconnect(); reject(err).  disconnect()
\* only starts the teardown; nothing waits for it
ListenError ==
    /\ lifecycle.pc = "binding"
    /\ db' = "disconnecting"
    /\ lifecycle' = [lifecycle EXCEPT !.pc = "done", !.promise = "rejected",
                                      !.err = "listen"]
    /\ UNCHANGED <<store, pc, req, dbop, result, res>>

\* the connection mongoose.disconnect() is closing has closed
DisconnectDone ==
    /\ db = "disconnecting"
    /\ db' = "disconnected"
    /\ UNCHANGED <<lifecycle, store, pc, req, dbop, result, res>>

\* a request can be received: the socket listens and no handler is running
Accepting == lifecycle.listening /\ pc = "idle"


(***************************************************************************)
(* server.js: the route handlers.  Each handler runs its synchronous part  *)
(* (...Receive), issues one store call and finishes in the promise         *)
(* callbacks when that call completes (...Complete), which leaves it at    *)
(* "done".  The model handles one request at a time: handlers share        *)
(* nothing but the collection, and each touches it in a single atomic      *)
(* store call.                                                             *)
(***************************************************************************)
queryableFields == {"cuisine", "borough"}
requiredFields == <<"name", "borough", "cuisine">>
updateableFields == {"name", "borough", "cuisine", "address"}
listLimit == 10

\* the filter the loop over req.query builds
buildFilter(q) == [f \in queryableFields |-> q[f]]

RECURSIVE reprSeqs(_)
\* restaurants.map(restaurant => restaurant.apiRepr())
reprSeqs(docs) ==
    IF docs = <<>> THEN {<<>>}
    ELSE {<<r>> \o t : r \in apiRepr(Head(docs)), t \in reprSeqs(Tail(docs))}

\* GET /restaurants: build the filter, issue find(filter).limit(10)
ListReceive(q) ==
    /\ Accepting
    /\ req' = Request("list", 0, q, noBody)
    /\ res' = freshRes
    /\ dbop' = [op |-> "find", filter |-> buildFilter(q), limit |-> listLimit]
    /\ result' = noResult
    /\ pc' = "awaitStore"
    /\ UNCHANGED <<lifecycle, db, store>>

\* GET /restaurants: then(restaurants => res.json(...)) or catch
ListComplete ==
    /\ pc = "awaitStore" /\ dbop.op = "find"
    /\ \E ok \in BOOLEAN :
        /\ result' = [ok |-> ok, doc |-> NoDoc]
        /\ \E reprs \in reprSeqs(find(store, dbop.filter, dbop.limit)) :
              res' = thenCatch(res, ok, 200, [restaurants |-> reprs])
    /\ pc' = "done"
    /\ UNCHANGED <<lifecycle, db, store, req, dbop>>

\* GET /restaurants/:id: issue findById(req.params.id)
GetReceive(id) ==
    /\ Accepting
    /\ req' = Request("get", id, noQuery, noBody)
    /\ res' = freshRes
    /\ dbop' = [op |-> "findById", id |-> id]
    /\ result' = noResult
    /\ pc' = "awaitStore"
    /\ UNCHANGED <<lifecycle, db, store>>

\* the then callbacks that call restaurant.apiRepr(): on null the call
\* throws a TypeError, which lands in catch like a store error
respondRepr(r, ok, doc, st) ==
    IF ok /\ doc # NoDoc
    THEN {thenCatch(r, TRUE, st, b) : b \in apiRepr(doc)}
    ELSE {thenCatch(r, FALSE, st, Undefined)}

\* GET /restaurants/:id: then(restaurant => res.json(restaurant.apiRepr()))
GetComplete ==
    /\ pc = "awaitStore" /\ dbop.op = "findById"
    /\ \E ok \in BOOLEAN :
        LET doc == IF ok THEN findById(store, dbop.id) ELSE NoDoc
        IN  /\ result' = [ok |-> ok, doc |-> doc]
            /\ res' \in respondRepr(res, ok, doc, 200)
    /\ pc' = "done"
    /\ UNCHANGED <<lifecycle, db, store, req, dbop>>

\* the required-field loop without the return: the last missing key wins
firstMissing_last(b) ==
    LET missing == {i \in 1..Len(requiredFields) : b[requiredFields[i]] = Undefined}
    IN  IF missing = {} THEN ""
        ELSE requiredFields[CHOOSE i \in missing : \A j \in missing : i >= j]

\* the first of requiredFields that is not a key of the body, or "" if none
firstMissing(b) ==
    LET missing == {i \in 1..Len(requiredFields) : b[requiredFields[i]] = Undefined}
    IN  IF missing = {} THEN ""
        ELSE requiredFields[CHOOSE i \in missing : \A j \in missing : i <= j]

\* POST /restaurants: the required-field loop, then Restaurant.create(...)
PostReceive(b) ==
    /\ Accepting
    /\ Len(store) < MaxRecords
    /\ req' = Request("post", 0, noQuery, b)
    /\ result' = noResult
    /\ IF firstMissing(b) # ""
       THEN /\ res' = send(freshRes, 400, [text |-> <<"Missing", firstMissing(b)>>])
            /\ dbop' = noOp
            /\ pc' = "done"
       ELSE /\ res' = freshRes
            /\ dbop' = [op |-> "create",
                        obj |-> [name |-> b.name, borough |-> b.borough,
                                 cuisine |-> b.cuisine, grades |-> b.grades,
                                 address |-> b.address]]
            /\ pc' = "awaitStore"
    /\ UNCHANGED <<lifecycle, db, store>>

\* POST /restaurants: create validates and saves; then 201 or catch
PostComplete ==
    /\ pc = "awaitStore" /\ dbop.op = "create"
    /\ \E up \in BOOLEAN :
        LET ok == up /\ validate(dbop.obj)
            doc == IF ok THEN newDoc(Len(store) + 1, dbop.obj) ELSE NoDoc
        IN  /\ store' = IF ok THEN create(store, dbop.obj) ELSE store
            /\ result' = [ok |-> ok, doc |-> doc]
            /\ res' \in respondRepr(res, ok, doc, 201)
    /\ pc' = "done"
    /\ UNCHANGED <<lifecycle, db, req, dbop>>

\* the test of the if in the PUT handler, negated: the ids match
idsMatch(id, b) == b.id # Undefined /\ b.id # Null /\ b.id = IdStr(id)

\* toUpdate as a full replace: an updatable field the body lacks is cleared
toUpdate_replace(b) ==
    [f \in updateableFields |-> IF b[f] = Undefined THEN Null ELSE b[f]]

\* the object the forEach over updateableFields builds
toUpdate(b) == [f \in updateableFields |-> b[f]]

\* PUT /restaurants/:id: on an id mismatch send 400 (no return follows),
\* then build toUpdate and issue findByIdAndUpdate
PutReceive(id, b) ==
    /\ Accepting
    /\ req' = Request("put", id, noQuery, b)
    /\ res' = IF idsMatch(id, b) THEN freshRes
              ELSE send(freshRes, 400, [message |-> <<"ids", "must", "match">>,
                                        pathId |-> id, bodyId |-> b.id])
    /\ dbop' = [op |-> "findByIdAndUpdate", id |-> id, set |-> toUpdate(b)]
    /\ result' = noResult
    /\ pc' = "awaitStore"
    /\ UNCHANGED <<lifecycle, db, store>>

\* PUT /restaurants/:id: the update is applied; the call yields the document
\* as it was before the update; then 202 or catch
PutComplete ==
    /\ pc = "awaitStore" /\ dbop.op = "findByIdAndUpdate"
    /\ \E ok \in BOOLEAN :
        LET doc == IF ok THEN findById(store, dbop.id) ELSE NoDoc
        IN  /\ store' = IF ok THEN findByIdAndUpdate(store, dbop.id, dbop.set)
                        ELSE store
            /\ result' = [ok |-> ok, doc |-> doc]
            /\ res' \in respondRepr(res, ok, doc, 202)
    /\ pc' = "done"
    /\ UNCHANGED <<lifecycle, db, req, dbop>>

\* DELETE /restaurants/:id: issue findByIdAndRemove
DeleteReceive(id) ==
    /\ Accepting
    /\ req' = Request("delete", id, noQuery, noBody)
    /\ res' = freshRes
    /\ dbop' = [op |-> "findByIdAndRemove", id |-> id]
    /\ result' = noResult
    /\ pc' = "awaitStore"
    /\ UNCHANGED <<lifecycle, db, store>>

\* DELETE /restaurants/:id: then(restaurant => res.status(204).end()) or catch
DeleteComplete ==
    /\ pc = "awaitStore" /\ dbop.op = "findByIdAndRemove"
    /\ \E ok \in BOOLEAN :
        /\ store' = IF ok THEN findByIdAndRemove(store, dbop.id) ELSE store
        /\ result' = [ok |-> ok, doc |-> IF ok THEN findById(store, dbop.id) ELSE NoDoc]
        /\ res' = thenCatch(res, ok, 204, Undefined)
    /\ pc' = "done"
    /\ UNCHANGED <<lifecycle, db, req, dbop>>

\* app.use('*'): any other request
Fallback ==
    /\ Accepting
    /\ req' = Request("other", 0, noQuery, noBody)
    /\ res' = send(freshRes, 404, [message |-> <<"Not", "Found">>])
    /\ dbop' = noOp
    /\ result' = noResult
    /\ pc' = "done"
    /\ UNCHANGED <<lifecycle, db, store>>

\* the handler has returned and its promise chain has settled: the request
\* and response objects of the finished request are dropped
RequestDone ==
    /\ pc = "done"
    /\ pc' = "idle"
    /\ req' = Request("none", 0, noQuery, noBody)
    /\ dbop' = noOp
    /\ result' = noResult
    /\ res' = freshRes
    /\ UNCHANGED <<lifecycle, db, store>>

(***************************************************************************)
(* Specifications                                                          *)
(***************************************************************************)
Init ==
    /\ lifecycle = [pc |-> "init", promise |-> "pending", err |-> "none",
                    listenCalled |-> FALSE, listening |-> FALSE]
    /\ db = "disconnected"
    /\ store = <<>>
    /\ pc = "idle"
    /\ req = Request("none", 0, noQuery, noBody)
    /\ dbop = noOp
    /\ result = noResult
    /\ res = freshRes

Next ==
    \/ RunServer
    \/ ConnectError
    \/ ConnectOk
    \/ ListenOk
    \/ ListenError
    \/ DisconnectDone
    \/ \E q \in Queries : ListReceive(q)
    \/ ListComplete
    \/ \E id \in Ids : GetReceive(id)
    \/ GetComplete
    \/ \E b \in PostBodies : PostReceive(b)
    \/ PostComplete
    \/ \E id \in Ids, b \in PutBodies : PutReceive(id, b)
    \/ PutComplete
    \/ \E id \in Ids : DeleteReceive(id)
    \/ DeleteComplete
    \/ Fallback
    \/ RequestDone

Spec == Init /\ [][Next]_vars


(***************************************************************************)
(* SpecList: the list handler over collections of up to MaxListRecords     *)
(* documents, created through POST /restaurants, with the server running   *)
(***************************************************************************)
running == [pc |-> "done", promise |-> "resolved", err |-> "none",
            listenCalled |-> TRUE, listening |-> TRUE]

listDoc(i, c) ==
    newDoc(i, [name |-> Str(<<"A">>), borough |-> Str(<<"B">>), cuisine |-> c,
               address |-> Undefined, grades |-> Undefined])

ListStores ==
    UNION {{[i \in 1..n |-> listDoc(i, cs[i])] :
              cs \in [1..n -> {Str(<<"C">>), Str(<<"D">>)}]} : n \in 0..MaxListRecords}

InitList ==
    /\ lifecycle = running
    /\ db = "connected"
    /\ store \in ListStores
    /\ pc = "idle"
    /\ req = Request("none", 0, noQuery, noBody)
    /\ dbop = noOp
    /\ result = noResult
    /\ res = freshRes

NextList ==
    \/ \E q \in Queries : ListReceive(q)
    \/ ListComplete
    \/ RequestDone

SpecList == InitList /\ [][NextList]_vars

(***************************************************************************)
(* SpecModel: models.js applied by GET /restaurants/:id to one stored      *)
(* document, over the addresses and grades arrays POST lets through        *)
(***************************************************************************)
ModelAddresses ==
    {Undefined} \cup
    {Addr(b, st) : b \in {Undefined, Str(<<>>), Str(<<"12">>)},
                   st \in {Undefined, Str(<<>>), Str(<<"Main">>)}}

\* an entry of grades: date and grade are both optional in the schema
GradeEntries ==
    [date : {Undefined, DateOf(1), DateOf(2), DateOf(3)},
     grade : {Str(<<"A">>), Str(<<"B">>)}]

ModelGrades == UNION {[1..n -> GradeEntries] : n \in 0..MaxGrades}

modelDoc(a, g) ==
    newDoc(1, [name |-> Str(<<"A">>), borough |-> Str(<<"B">>),
               cuisine |-> Str(<<"C">>), address |-> a, grades |-> g])

\* one document: any address without grades, or any grades without address
ModelDocs ==
    {modelDoc(a, Undefined) : a \in ModelAddresses}
        \cup {modelDoc(Undefined, Arr(g)) : g \in ModelGrades}

InitModel ==
    /\ lifecycle = running
    /\ db = "connected"
    /\ store \in {<<d>> : d \in ModelDocs}
    /\ pc = "idle"
    /\ req = Request("none", 0, noQuery, noBody)
    /\ dbop = noOp
    /\ result = noResult
    /\ res = freshRes

NextModel ==
    \/ \E id \in Ids : GetReceive(id)
    \/ GetComplete
    \/ RequestDone

SpecModel == InitModel /\ [][NextModel]_vars


(***************************************************************************)
(* Properties                                                              *)
(***************************************************************************)
\* the handler of an op request has finished
Finished(op) == pc = "done" /\ req.op = op

\* the response written for the request has status st
Answered(st) == res.out # <<>> /\ res.out[1].status = st

updatable == {"name", "borough", "cuisine", "address"}
required == {"name", "borough", "cuisine"}

\* the path id and the body id of the PUT request are both present and equal
SameIds(r) == r.body.id = IdStr(r.id)

\* C1: a PUT whose path id and body id are not both present and equal is
\* answered 400 and leaves the store unchanged: no stored record differs
\* after the request from before it (as it would if no findByIdAndUpdate
\* were issued for the request)
C1_MismatchedPutLeavesStore ==
    [][(req'.op = "put" /\ ~SameIds(req'))
          => (store' = store /\ Answered(400)')]_vars

\* C2: a POST whose body lacks one of name, borough, cuisine is answered 400
\* with a message naming the first missing key in the order name, borough,
\* cuisine, no create is issued and the stored records stay as they were
C2_MissingFieldRejected ==
    [][(req'.op = "post" /\ \E f \in required : req'.body[f] = Undefined)
          => /\ store' = store
             /\ Answered(400)'
             /\ res'.out[1].body =
                   [text |-> <<"Missing",
                               IF req'.body.name = Undefined THEN "name"
                               ELSE IF req'.body.borough = Undefined THEN "borough"
                               ELSE "cuisine">>]
             /\ dbop'.op # "create"
             /\ pc' \in {"done", "idle"}]_vars

\* a POST with name present and both borough and cuisine missing was
\* answered 400, naming borough
C2_Witness ==
    /\ Finished("post") /\ Answered(400)
    /\ req.body.name # Undefined
    /\ req.body.borough = Undefined /\ req.body.cuisine = Undefined
    /\ res.out[1].body = [text |-> <<"Missing", "borough">>]

\* C3: a PUT changes, on the record with the path id, only those of name,
\* borough, cuisine, address that are keys of the body; every other field of
\* that record and every other record stay as they were
C3_PutFrame ==
    [][(req.op = "put" /\ pc = "awaitStore")
          => /\ Len(store') = Len(store)
             /\ \A i \in 1..Len(store) :
                   IF i = req.id /\ store[i] # NoDoc
                   THEN /\ store'[i] # NoDoc
                        /\ \A k \in DOMAIN store[i] :
                              (k \notin updatable \/ req.body[k] = Undefined)
                                 => store'[i][k] = store[i][k]
                   ELSE store'[i] = store[i]]_vars

\* a PUT with matching ids, carrying name, address and grades but no cuisine,
\* was answered 202 and changed the name of one of two stored records
C3_Witness ==
    /\ Finished("put") /\ Answered(202)
    /\ req.body.name = Null /\ req.body.address # Undefined
    /\ req.body.grades # Undefined /\ req.body.cuisine = Undefined
    /\ Len(store) = 2 /\ store[1] # NoDoc /\ store[2] # NoDoc
    /\ store[req.id].name = Null /\ result.doc.name # Null
    /\ store[req.id].grades = <<>>


\* C4: after any sequence of create, update and delete requests every
\* stored record has a name, a borough and a cuisine
C4_RequiredFieldsPresent ==
    \A i \in 1..Len(store) :
        store[i] # NoDoc =>
            \A f \in required : store[i][f] \notin {Undefined, Null}

\* C5: a DELETE whose store call succeeds is answered 204 with an empty
\* body whether or not a record with the id exists; afterwards no record
\* has that id and the other records are as before, so that a DELETE of
\* an id that is already gone leaves the store as it found it
C5_DeleteIdempotent ==
    [][(req.op = "delete" /\ pc = "awaitStore" /\ result'.ok)
          => /\ res'.out = <<[status |-> 204, body |-> Undefined]>>
             /\ Len(store') = Len(store)
             /\ \A i \in 1..Len(store) :
                   IF i = req.id THEN store'[i] = NoDoc ELSE store'[i] = store[i]
             /\ ((req.id \notin 1..Len(store) \/ store[req.id] = NoDoc)
                    => store' = store)]_vars

\* a DELETE of an id whose record an earlier DELETE removed (only DELETE
\* removes records) was answered 204, next to a record that is still there
C5_Witness ==
    /\ Finished("delete") /\ Answered(204)
    /\ result.ok /\ result.doc = NoDoc
    /\ req.id \in 1..Len(store)
    /\ \E i \in 1..Len(store) : store[i] # NoDoc

\* C6: a GET of a record that was created without address or grades and
\* not updated since is answered 200 with the id, name, cuisine and borough
\* of the record and the empty string as address
C6_RoundTrip ==
    (/\ Finished("get") /\ Answered(200)
     /\ store[req.id].address = Undefined /\ store[req.id].grades = <<>>)
        => LET b == res.out[1].body
               d == store[req.id]
           IN  /\ b.id = req.id /\ b.name = d.name
               /\ b.cuisine = d.cuisine /\ b.borough = d.borough
               /\ b.address = Str(<<>>)

\* C9 as stated: runServer resolves only with the connection established
\* and the socket listening; it fails if the connection fails, and listen is
\* then never attempted; it fails if listen fails, and the disconnect has
\* then completed by the time the failure is propagated
C9_DisconnectedBeforeReject ==
    /\ lifecycle.promise = "resolved" => (db = "connected" /\ lifecycle.listening)
    /\ (lifecycle.pc = "done" /\ ~lifecycle.listenCalled)
          => lifecycle.promise = "rejected"
    /\ (lifecycle.pc = "done" /\ lifecycle.listenCalled /\ ~lifecycle.listening)
          => (lifecycle.promise = "rejected" /\ db = "disconnected")

\* C9 amended: as above, but on a listen failure the teardown of the
\* connection has been started, not necessarily completed, when the failure
\* is propagated
C9_DisconnectStartedBeforeReject ==
    /\ lifecycle.promise = "resolved" => (db = "connected" /\ lifecycle.listening)
    /\ (lifecycle.pc = "done" /\ ~lifecycle.listenCalled)
          => lifecycle.promise = "rejected"
    /\ (lifecycle.pc = "done" /\ lifecycle.listenCalled /\ ~lifecycle.listening)
          => (lifecycle.promise = "rejected"
              /\ db \in {"disconnecting", "disconnected"})

\* runServer was rejected for a listen failure while the connection is
\* still closing
C9_Witness ==
    /\ lifecycle.promise = "rejected" /\ lifecycle.listenCalled
    /\ db = "disconnecting"

\* C10: every handler calls a sending method of its response at most once,
\* and exactly once by the time its store call has completed; no request
\* is answered 400 and then answered again
C10_OneResponse ==
    /\ Len(res.calls) <= 1
    /\ pc = "done" => (Len(res.calls) = 1 /\ Len(res.out) = 1)


\* the stored records a list request with query q is about
Matching(q) ==
    {i \in 1..Len(store) :
        /\ store[i] # NoDoc
        /\ q.cuisine # Undefined => store[i].cuisine = q.cuisine
        /\ q.borough # Undefined => store[i].borough = q.borough}

Dated(g) == {i \in 1..Len(g) : g[i].date # Undefined}

\* C8: the grade of the public representation is the grade of the grades
\* entry with the greatest date, whatever the stored order; with no grades
\* it is undefined and no error is raised
C8_MostRecentGrade ==
    Finished("get") /\ findById(store, req.id) # NoDoc /\ result.ok
        => /\ Answered(200)
           /\ LET g == store[req.id].grades
                  grade == res.out[1].body.grade
              IN  /\ g = <<>> => grade = Undefined
                  /\ Dated(g) # {} =>
                        \E i \in Dated(g) :
                            /\ \A j \in Dated(g) : g[j].date.ms <= g[i].date.ms
                            /\ grade = g[i].grade

====
